---- MODULE Spec2Model ----
(***************************************************************************)
(* Spy party game: the word bank (src/lib/api) and the lobby / reveal /    *)
(* done page that drives it.  The page handlers are modelled as actions,   *)
(* the word bank functions as operators over the module state.             *)
(***************************************************************************)
EXTENDS Integers, Sequences, FiniteSets, TLC

VARIABLES
  \* word bank module state
  categories,            \* category names, in the order Object.keys gives them
  allWords,              \* category -> sequence of words
  selectedCategories,    \* the word bank's selection (an array)
  wordsByCategory,       \* selected known category -> sequence of words
  usedWordsByCategory,   \* category -> set of words drawn
  \* page state
  playerNames, spyCount, stage, revealState, assignments, secretWord,
  noMoreWords, pageSelected, categoryStats, isLoading, current,
  \* observers (not program state)
  ret,                   \* value getRandomWord returned in the last step
  returned,              \* every word getRandomWord has returned so far
  seen                   \* cursors that became Revealed in the current round

bankVars == <<categories, allWords, selectedCategories, wordsByCategory,
              usedWordsByCategory>>
pageVars == <<playerNames, spyCount, stage, revealState, assignments,
              secretWord, noMoreWords, pageSelected, categoryStats, isLoading,
              current>>
obsVars == <<ret, returned, seen>>
vars == <<bankVars, pageVars, obsVars>>

----------------------------------------------------------------------------
\* Values of the host language
Null == "<null>"
Undefined == "<undefined>"
NoCall == "<none>"
EmptyObject == [k \in {} |-> Undefined]

Range(s) == {s[i] : i \in DOMAIN s}
Max(a, b) == IF a >= b THEN a ELSE b

\* Array.prototype.includes
Includes(s, x) == \E i \in DOMAIN s : s[i] = x

\* Array.prototype.filter that drops the entry at index i (1-based here)
DropAt(s, i) == [j \in 1..(Len(s) - 1) |-> IF j < i THEN s[j] ELSE s[j + 1]]

\* Array.prototype.filter(c => c # x)
Without(s, x) == SelectSeq(s, LAMBDA c : c # x)

----------------------------------------------------------------------------
\* Bounds of the model
MaxPlayers == 4

\* Names typed into a player field
EditNames == {"", " ", "Bob"}

\* String.prototype.trim on the names of the model
Trim(name) == IF name \in {"", " "} THEN "" ELSE name

----------------------------------------------------------------------------
\* The word source: the text of /words.csv as its lines, each line as the
\* fields split(',') gives.  FetchFails stands for fetch or text() throwing.
FetchFails == [throws |-> TRUE, lines |-> <<>>]
Csv(lines) == [throws |-> FALSE, lines |-> lines]
Header == <<"category", "word">>
CsvShared == Csv(<< Header, <<"animals", "cat">>, <<"animals", "bat">>,
                    <<"sports", "bat">> >>)
Sources == {FetchFails, CsvShared}

DefaultWords == <<"computer", "elephant", "bicycle", "mountain", "umbrella">>

\* line.trim() !== ''
NonBlank(line) == ~(Len(line) = 1 /\ Trim(line[1]) = "")

\* const [category, word] = line.split(',')
LineCategory(line) == line[1]
LineWord(line) == IF Len(line) >= 2 THEN line[2] ELSE Undefined

\* Object.keys(categoryMap): the categories in order of first appearance
RECURSIVE CategoryKeys(_)
CategoryKeys(data) ==
  IF data = <<>> THEN <<>>
  ELSE LET rest == CategoryKeys(SubSeq(data, 1, Len(data) - 1))
           c == LineCategory(data[Len(data)])
       IN IF Includes(rest, c) THEN rest ELSE Append(rest, c)

\* categoryMap[category]: the words pushed for that category, in order
RECURSIVE CategoryWords(_, _)
CategoryWords(data, c) ==
  IF data = <<>> THEN <<>>
  ELSE LET rest == CategoryWords(SubSeq(data, 1, Len(data) - 1), c)
           line == data[Len(data)]
       IN IF LineCategory(line) = c THEN Append(rest, LineWord(line)) ELSE rest

\* updateWordsByCategory
UpdateWordsByCategory(all, selected) ==
  [c \in {x \in Range(selected) : x \in DOMAIN all} |-> all[c]]

----------------------------------------------------------------------------
\* Word bank queries (src/lib/api)

\* wordsByCategory[category] || []
WordsOf(category) ==
  IF category \in DOMAIN wordsByCategory THEN wordsByCategory[category] ELSE <<>>

\* usedWordsByCategory[category] || new Set()
UsedOf(category) ==
  IF category \in DOMAIN usedWordsByCategory
  THEN usedWordsByCategory[category] ELSE {}

\* variant: <= where < is meant
AvailableCategoriesInclusive ==
  SelectSeq(selectedCategories,
            LAMBDA c : Cardinality(UsedOf(c)) <= Len(WordsOf(c)))

\* getRandomWord: the categories that still have words
AvailableCategories ==
  SelectSeq(selectedCategories,
            LAMBDA c : Cardinality(UsedOf(c)) < Len(WordsOf(c)))

\* variant: the filter on used words is missing
AvailableWordsUnfiltered(category) == WordsOf(category)

\* getRandomWord: categoryWords.filter(word => !usedWords.has(word))
AvailableWords(category) ==
  SelectSeq(WordsOf(category), LAMBDA w : w \notin UsedOf(category))

\* getRandomWord: every (category, word) the two random picks can give; an
\* index into an empty array gives undefined
Draws ==
  IF Len(selectedCategories) = 0 \/ Len(AvailableCategories) = 0
  THEN {[category |-> Null, word |-> Null]}
  ELSE UNION {
         IF AvailableWords(c) = <<>>
         THEN {[category |-> c, word |-> Undefined]}
         ELSE {[category |-> c, word |-> w] : w \in Range(AvailableWords(c))}
         : c \in Range(AvailableCategories)}

\* variant: the word is recorded in every category that lists it
MarkUsedEverywhere(d) ==
  IF d.word # Null /\ d.category \in DOMAIN usedWordsByCategory
  THEN [c \in DOMAIN usedWordsByCategory |->
          IF d.word \in Range(WordsOf(c)) \/ c = d.category
          THEN usedWordsByCategory[c] \cup {d.word}
          ELSE usedWordsByCategory[c]]
  ELSE usedWordsByCategory

\* variant: the drawn word is not recorded
MarkUsedNever(d) == usedWordsByCategory

\* getRandomWord: usedWords.add(randomWord)
MarkUsed(d) ==
  IF d.word # Null /\ d.category \in DOMAIN usedWordsByCategory
  THEN [usedWordsByCategory EXCEPT ![d.category] = @ \cup {d.word}]
  ELSE usedWordsByCategory

\* variant: some() where every() is meant
allWordsUsedSome ==
  \/ Len(selectedCategories) = 0
  \/ \E i \in DOMAIN selectedCategories :
        Cardinality(UsedOf(selectedCategories[i]))
          >= Len(WordsOf(selectedCategories[i]))

allWordsUsed ==
  \/ Len(selectedCategories) = 0
  \/ \A i \in DOMAIN selectedCategories :
        Cardinality(UsedOf(selectedCategories[i]))
          >= Len(WordsOf(selectedCategories[i]))

\* getTotalWordCount: reduce over the selection, left to right
RECURSIVE TotalOver(_)
TotalOver(s) ==
  IF s = <<>> THEN 0
  ELSE TotalOver(SubSeq(s, 1, Len(s) - 1))
         + (IF s[Len(s)] \in DOMAIN wordsByCategory
            THEN Len(wordsByCategory[s[Len(s)]]) ELSE 0)

getTotalWordCount == TotalOver(selectedCategories)

\* getUsedWordCount: reduce over the selection, left to right
RECURSIVE UsedOver(_)
UsedOver(s) ==
  IF s = <<>> THEN 0
  ELSE UsedOver(SubSeq(s, 1, Len(s) - 1))
         + (IF s[Len(s)] \in DOMAIN usedWordsByCategory
            THEN Cardinality(usedWordsByCategory[s[Len(s)]]) ELSE 0)

getUsedWordCount == UsedOver(selectedCategories)

\* variant: an entry for every tracked category, selected or not
CategoryStatsOfAll(selected, byCategory, used) ==
  [c \in DOMAIN used |->
     [used |-> Cardinality(used[c]),
      total |-> IF c \in DOMAIN byCategory THEN Len(byCategory[c]) ELSE 0]]

\* getCategoryStats over a given bank state
CategoryStats(selected, byCategory, used) ==
  [c \in Range(selected) |->
     [used |-> IF c \in DOMAIN used THEN Cardinality(used[c]) ELSE 0,
      total |-> IF c \in DOMAIN byCategory THEN Len(byCategory[c]) ELSE 0]]

getCategoryStats ==
  CategoryStats(selectedCategories, wordsByCategory, usedWordsByCategory)

----------------------------------------------------------------------------
\* initializeWords: the word bank after the load of src; used is the
\* usedWordsByCategory object before the call
\* variant: the built-in category is loaded but not selected
FallbackUnselected(used) ==
  [categories |-> <<"default">>,
   allWords |-> [c \in {"default"} |-> DefaultWords],
   selectedCategories |-> <<>>,
   usedWordsByCategory |->
     [c \in DOMAIN used \cup {"default"} |->
        IF c = "default" THEN {} ELSE used[c]]]

Fallback(used) ==
  [categories |-> <<"default">>,
   allWords |-> [c \in {"default"} |-> DefaultWords],
   selectedCategories |-> <<"default">>,
   usedWordsByCategory |->
     [c \in DOMAIN used \cup {"default"} |->
        IF c = "default" THEN {} ELSE used[c]]]

Parsed(lines, used) ==
  LET data == Tail(lines)
      keys == CategoryKeys(data)
  IN [categories |-> keys,
      allWords |-> [c \in Range(keys) |-> CategoryWords(data, c)],
      selectedCategories |-> keys,
      usedWordsByCategory |->
        [c \in DOMAIN used \cup Range(keys) |->
           IF c \in Range(keys) THEN {} ELSE used[c]]]

\* lines[0].split(',') throws on an empty line list, which the catch handles
LoadedBank(src, used) ==
  IF src.throws THEN Fallback(used)
  ELSE LET lines == SelectSeq(src.lines, NonBlank)
       IN IF lines = <<>> THEN Fallback(used) ELSE Parsed(lines, used)

----------------------------------------------------------------------------
\* Page (lobby / reveal / done)

MaxSpies(n) == Max(1, n \div 3)

\* variant: the reactive clamp is missing
ClampNever(count, names) == count

\* $: if (spyCount > maxSpies) spyCount = maxSpies
Clamp(count, names) ==
  IF count > MaxSpies(Len(names)) THEN MaxSpies(Len(names)) ELSE count

\* [...playerNames].sort(() => Math.random() - 0.5): the comparator is not
\* consistent, so the order is any permutation of the list
\* variant: the order of the list is kept
ShufflesIdentity(names) == {names}

Shuffles(names) ==
  {[i \in 1..Len(names) |-> names[p[i]]] : p \in Permutations(1..Len(names))}

\* variant: the slice is one short
SpiesOneShort(shuffled, count) ==
  {shuffled[i] : i \in {j \in DOMAIN shuffled : j < count}}

\* new Set(shuffled.slice(0, spyCount))
Spies(shuffled, count) ==
  {shuffled[i] : i \in {j \in DOMAIN shuffled : j <= count}}

\* Object.fromEntries(playerNames.map(p => [p, spies.has(p) ? 'spy' : 'agent']))
Assign(names, spies) ==
  [p \in Range(names) |-> IF p \in spies THEN "spy" ELSE "agent"]

\* $assignments[playerNames[current]]; both lookups give undefined when the
\* index or the key is absent
RoleAt(cursor) ==
  IF cursor + 1 \in DOMAIN playerNames
     /\ playerNames[cursor + 1] \in DOMAIN assignments
  THEN assignments[playerNames[cursor + 1]] ELSE Undefined

\* observers
NoDraw == ret' = NoCall /\ returned' = returned
Drew(d) ==
  /\ ret' = d.word
  /\ returned' = IF d.word = Null THEN returned ELSE returned \cup {d.word}
Revealed(st, rs) == st = "reveal" /\ rs # "waiting"
ObserveReveal ==
  seen' = LET base == IF ret' \notin {NoCall, Null} THEN <<>> ELSE seen
          IN IF Revealed(stage', revealState')
                /\ ~(Revealed(stage, revealState) /\ current' = current)
             THEN Append(base, current') ELSE base

Init ==
  /\ categories = <<>> /\ allWords = EmptyObject
  /\ selectedCategories = <<>> /\ wordsByCategory = EmptyObject
  /\ usedWordsByCategory = EmptyObject
  /\ playerNames = <<"Alice", "Bob", "Charlie">>
  /\ spyCount = 1
  /\ stage = "lobby"
  /\ revealState = "waiting"
  /\ assignments = EmptyObject
  /\ secretWord = ""
  /\ noMoreWords = FALSE
  /\ pageSelected = <<>>
  /\ categoryStats = EmptyObject
  /\ isLoading = TRUE
  /\ current = 0
  /\ ret = NoCall /\ returned = {} /\ seen = <<>>

\* onMount: await initializeWords(), then read the bank
onMount(src) ==
  LET bank == LoadedBank(src, usedWordsByCategory) IN
  /\ categories' = bank.categories
  /\ allWords' = bank.allWords
  /\ selectedCategories' = bank.selectedCategories
  /\ wordsByCategory' = UpdateWordsByCategory(bank.allWords, bank.selectedCategories)
  /\ usedWordsByCategory' = bank.usedWordsByCategory
  /\ pageSelected' = selectedCategories'
  /\ categoryStats' =
       CategoryStats(selectedCategories', wordsByCategory', usedWordsByCategory')
  /\ isLoading' = FALSE
  /\ UNCHANGED <<playerNames, spyCount, stage, revealState, assignments,
                 secretWord, noMoreWords, current>>
  /\ NoDraw /\ ObserveReveal

\* setSelectedCategories followed by updateCategoryStats, as every category
\* handler of the page does
select(selected) ==
  /\ pageSelected' = selected
  /\ selectedCategories' = selected
  /\ wordsByCategory' = UpdateWordsByCategory(allWords, selected)
  /\ categoryStats' =
       CategoryStats(selected, wordsByCategory', usedWordsByCategory)
  /\ UNCHANGED <<categories, allWords, usedWordsByCategory, playerNames,
                 spyCount, stage, revealState, assignments, secretWord,
                 noMoreWords, isLoading, current>>
  /\ NoDraw /\ ObserveReveal

toggleCategory(categoryName) ==
  select(IF Includes(pageSelected, categoryName)
         THEN Without(pageSelected, categoryName)
         ELSE Append(pageSelected, categoryName))

selectAllCategories == select(categories)

deselectAllCategories == select(<<>>)

\* a change of the player list, then the reactive clamp of spyCount
editPlayers(names) ==
  /\ playerNames' = names
  /\ spyCount' = Clamp(spyCount, names)
  /\ UNCHANGED <<bankVars, stage, revealState, assignments, secretWord,
                 noMoreWords, pageSelected, categoryStats, isLoading, current>>
  /\ NoDraw /\ ObserveReveal

addPlayer == editPlayers(Append(playerNames, ""))

removePlayer(index) == editPlayers(DropAt(playerNames, index))

updatePlayerName(index, name) ==
  editPlayers([playerNames EXCEPT ![index] = name])

\* the range input bound to spyCount (min 1, max maxSpies)
setSpyCount(value) ==
  /\ spyCount' = Clamp(value, playerNames)
  /\ UNCHANGED <<bankVars, playerNames, stage, revealState, assignments,
                 secretWord, noMoreWords, pageSelected, categoryStats,
                 isLoading, current>>
  /\ NoDraw /\ ObserveReveal

\* variant: the word is stored before it is checked for null
startGameUnchecked ==
  \E d \in Draws :
    /\ usedWordsByCategory' = MarkUsed(d)
    /\ secretWord' = d.word
    /\ IF d.word = Null
       THEN /\ noMoreWords' = TRUE
            /\ UNCHANGED <<assignments, stage, current, revealState>>
       ELSE /\ \E shuffled \in Shuffles(playerNames) :
                 assignments' = Assign(playerNames, Spies(shuffled, spyCount))
            /\ stage' = "reveal"
            /\ current' = 0
            /\ revealState' = "waiting"
            /\ UNCHANGED noMoreWords
    /\ UNCHANGED <<categories, allWords, selectedCategories, wordsByCategory,
                   playerNames, spyCount, pageSelected, categoryStats, isLoading>>
    /\ Drew(d) /\ ObserveReveal

startGame ==
  \E d \in Draws :
    /\ usedWordsByCategory' = MarkUsed(d)
    /\ IF d.word = Null
       THEN /\ noMoreWords' = TRUE
            /\ UNCHANGED <<secretWord, assignments, stage, current, revealState>>
       ELSE /\ secretWord' = d.word
            /\ \E shuffled \in Shuffles(playerNames) :
                 assignments' = Assign(playerNames, Spies(shuffled, spyCount))
            /\ stage' = "reveal"
            /\ current' = 0
            /\ revealState' = "waiting"
            /\ UNCHANGED noMoreWords
    /\ UNCHANGED <<categories, allWords, selectedCategories, wordsByCategory,
                   playerNames, spyCount, pageSelected, categoryStats, isLoading>>
    /\ Drew(d) /\ ObserveReveal

\* variant: revealing a role draws the roles again
showRoleReassigns ==
  /\ revealState' = "revealed"
  /\ \E shuffled \in Shuffles(playerNames) :
       assignments' = Assign(playerNames, Spies(shuffled, spyCount))
  /\ UNCHANGED <<bankVars, playerNames, spyCount, stage,
                 secretWord, noMoreWords, pageSelected, categoryStats,
                 isLoading, current>>
  /\ NoDraw /\ ObserveReveal

showRole ==
  /\ revealState' = "revealed"
  /\ UNCHANGED <<bankVars, playerNames, spyCount, stage, assignments,
                 secretWord, noMoreWords, pageSelected, categoryStats,
                 isLoading, current>>
  /\ NoDraw /\ ObserveReveal

\* variant: > where >= is meant
LastPlayerPassedLate(cursor, names) == cursor > Len(names)

\* if (++current >= playerNames.length)
LastPlayerPassed(cursor, names) == cursor >= Len(names)

\* variant: the cursor does not move
IncrementNever(cursor) == cursor

\* variant: the cursor moves by two
IncrementTwice(cursor) == cursor + 2

\* ++current
Increment(cursor) == cursor + 1

\* variant: the sub-state is not set back to waiting
nextPlayerStaysRevealed ==
  /\ current' = Increment(current)
  /\ IF LastPlayerPassed(current', playerNames)
     THEN stage' = "done" /\ UNCHANGED revealState
     ELSE UNCHANGED <<revealState, stage>>
  /\ UNCHANGED <<bankVars, playerNames, spyCount, assignments, secretWord,
                 noMoreWords, pageSelected, categoryStats, isLoading>>
  /\ NoDraw /\ ObserveReveal

nextPlayer ==
  /\ current' = Increment(current)
  /\ IF LastPlayerPassed(current', playerNames)
     THEN stage' = "done" /\ UNCHANGED revealState
     ELSE revealState' = "waiting" /\ UNCHANGED stage
  /\ UNCHANGED <<bankVars, playerNames, spyCount, assignments, secretWord,
                 noMoreWords, pageSelected, categoryStats, isLoading>>
  /\ NoDraw /\ ObserveReveal

\* variant: the reset goes straight back to the reveal screen
resetGameToReveal ==
  /\ stage' = "reveal"
  /\ revealState' = "waiting"
  /\ current' = 0
  /\ secretWord' = ""
  /\ assignments' = EmptyObject
  /\ categoryStats' = getCategoryStats
  /\ UNCHANGED <<bankVars, playerNames, spyCount, noMoreWords, pageSelected,
                 isLoading>>
  /\ NoDraw /\ ObserveReveal

\* variant: the reset leaves the cursor where the round ended
resetGameKeepsCursor ==
  /\ stage' = "lobby"
  /\ revealState' = "waiting"
  /\ secretWord' = ""
  /\ assignments' = EmptyObject
  /\ categoryStats' = getCategoryStats
  /\ UNCHANGED <<bankVars, playerNames, spyCount, noMoreWords, pageSelected,
                 isLoading, current>>
  /\ NoDraw /\ ObserveReveal

\* variant: the reset also forgets the used words
resetGameClearsUsage ==
  /\ stage' = "lobby"
  /\ revealState' = "waiting"
  /\ current' = 0
  /\ secretWord' = ""
  /\ assignments' = EmptyObject
  /\ usedWordsByCategory' = [c \in DOMAIN usedWordsByCategory |-> {}]
  /\ categoryStats' =
       CategoryStats(selectedCategories, wordsByCategory, usedWordsByCategory')
  /\ UNCHANGED <<categories, allWords, selectedCategories, wordsByCategory,
                 playerNames, spyCount, noMoreWords, pageSelected, isLoading>>
  /\ NoDraw /\ ObserveReveal

\* variant: the secret word of the last round is kept
resetGameKeepsWord ==
  /\ stage' = "lobby"
  /\ revealState' = "waiting"
  /\ current' = 0
  /\ assignments' = EmptyObject
  /\ categoryStats' = getCategoryStats
  /\ UNCHANGED <<bankVars, playerNames, spyCount, noMoreWords, pageSelected,
                 isLoading, secretWord>>
  /\ NoDraw /\ ObserveReveal

resetGame ==
  /\ stage' = "lobby"
  /\ revealState' = "waiting"
  /\ current' = 0
  /\ secretWord' = ""
  /\ assignments' = EmptyObject
  /\ categoryStats' = getCategoryStats
  /\ UNCHANGED <<bankVars, playerNames, spyCount, noMoreWords, pageSelected,
                 isLoading>>
  /\ NoDraw /\ ObserveReveal

----------------------------------------------------------------------------
\* What the template shows and offers in each state

\* the cursors whose role the reveal card renders
RoleShown ==
  IF stage = "reveal" /\ revealState # "waiting" THEN {current} ELSE {}

\* variant: the lobby's controls are rendered in every stage
LobbyShownAlways == ~isLoading

\* variant: the lobby's controls are rendered during the load as well
LobbyShownWhileLoading == stage = "lobby"

\* variant: the card shows the word whatever the role
RevealCardLeaks(role, word) ==
  IF revealState = "waiting" THEN <<"instruction">> ELSE <<"word", word>>

\* the reveal card: the instruction, or the word for an agent, or the spy text
RevealCard(role, word) ==
  IF revealState = "waiting" THEN <<"instruction">>
  ELSE IF role = "agent" THEN <<"word", word>> ELSE <<"spy">>

\* what the page renders of the round when the secret word is word; the
\* lobby and the done screen render neither a role nor the secret word
Displayed(word) ==
  IF stage = "reveal" THEN RevealCard(RoleAt(current), word) ELSE <<stage>>

LobbyShown == stage = "lobby" /\ ~isLoading

\* variant: names are compared without trim()
StartDisabledUntrimmed ==
  \/ Len(playerNames) < 3
  \/ \E i \in DOMAIN playerNames : playerNames[i] = ""
  \/ noMoreWords
  \/ Len(pageSelected) = 0

\* variant: the no-more-words flag does not disable the button
StartDisabledIgnoresFlag ==
  \/ Len(playerNames) < 3
  \/ \E i \in DOMAIN playerNames : Trim(playerNames[i]) = ""
  \/ Len(pageSelected) = 0

StartDisabled ==
  \/ Len(playerNames) < 3
  \/ \E i \in DOMAIN playerNames : Trim(playerNames[i]) = ""
  \/ noMoreWords
  \/ Len(pageSelected) = 0

Mount == isLoading /\ \E src \in Sources : onMount(src)
ToggleCategory ==
  LobbyShown /\ \E i \in DOMAIN categories : toggleCategory(categories[i])
SelectAll == LobbyShown /\ selectAllCategories
DeselectAll == LobbyShown /\ deselectAllCategories
AddPlayer == LobbyShown /\ Len(playerNames) < MaxPlayers /\ addPlayer
RemovePlayer == LobbyShown /\ \E i \in DOMAIN playerNames : removePlayer(i)
UpdatePlayerName ==
  LobbyShown /\ \E i \in DOMAIN playerNames : \E name \in EditNames :
                  updatePlayerName(i, name)
SetSpyCount ==
  LobbyShown /\ \E v \in 1..MaxSpies(Len(playerNames)) : setSpyCount(v)
StartGame == LobbyShown /\ ~StartDisabled /\ startGame
ShowRole == stage = "reveal" /\ revealState = "waiting" /\ showRole
NextPlayer == stage = "reveal" /\ revealState # "waiting" /\ nextPlayer
ResetGame == stage \notin {"lobby", "reveal"} /\ resetGame

Next ==
  \/ Mount
  \/ ToggleCategory
  \/ SelectAll
  \/ DeselectAll
  \/ AddPlayer
  \/ RemovePlayer
  \/ UpdatePlayerName
  \/ SetSpyCount
  \/ StartGame
  \/ ShowRole
  \/ NextPlayer
  \/ ResetGame

Spec == Init /\ [][Next]_vars

----------------------------------------------------------------------------
\* The word bank called directly, in any order, once it is initialized

MaxRecords == 3
BankCategories == {"animals", "sports"}
BankWords == {"cat", "bat"}
UnknownCategory == "plants"

\* Sequences over S without repetition, of length at most n
Arrangements(S, n) ==
  UNION {{f \in [1..k -> S] : \A i, j \in 1..k : f[i] = f[j] => i = j}
         : k \in 0..n}

\* Word sources of at most MaxRecords records; a category lists a word once
\* (the data model of the word bank: words are unique within a category)
BankSources ==
  {FetchFails} \cup
  {Csv(<<Header>> \o records) :
     records \in Arrangements(BankCategories \X BankWords, MaxRecords)}

BankMount == isLoading /\ \E src \in BankSources : onMount(src)

getRandomWord ==
  \E d \in Draws :
    /\ usedWordsByCategory' = MarkUsed(d)
    /\ UNCHANGED <<categories, allWords, selectedCategories, wordsByCategory,
                   pageVars>>
    /\ Drew(d) /\ ObserveReveal

\* variant: a new selection starts with fresh usage
setSelectedCategoriesResetsUsage(selected) ==
  /\ selectedCategories' = selected
  /\ wordsByCategory' = UpdateWordsByCategory(allWords, selected)
  /\ usedWordsByCategory' = [c \in DOMAIN usedWordsByCategory |-> {}]
  /\ UNCHANGED <<categories, allWords, pageVars>>
  /\ NoDraw /\ ObserveReveal

setSelectedCategories(selected) ==
  /\ selectedCategories' = selected
  /\ wordsByCategory' = UpdateWordsByCategory(allWords, selected)
  /\ UNCHANGED <<categories, allWords, usedWordsByCategory, pageVars>>
  /\ NoDraw /\ ObserveReveal

GetRandomWord == ~isLoading /\ getRandomWord

SetSelectedCategories ==
  /\ ~isLoading
  /\ \E selected \in Arrangements(Range(categories) \cup {UnknownCategory},
                                   Len(categories) + 1) :
       setSelectedCategories(selected)

BankNext ==
  \/ BankMount
  \/ GetRandomWord
  \/ SetSelectedCategories

SpecBank == Init /\ [][BankNext]_vars

----------------------------------------------------------------------------
\* Rounds played from lobby configurations of up to MaxRolePlayers players

MaxRolePlayers == 6
PlayerPool ==
  <<"Alice", "Bob", "Charlie", "Dave", "Erin", "Frank", "Grace", "Heidi">>

\* n players with distinct names, or with the second named like the first
RoleLists ==
  {[i \in 1..n |-> IF dup /\ i = 2 THEN PlayerPool[1] ELSE PlayerPool[i]] :
     n \in 3..MaxRolePlayers, dup \in BOOLEAN}

\* the lobby after the load of CsvShared and edits of players and spy count
RolesInit ==
  LET bank == LoadedBank(CsvShared, EmptyObject) IN
  /\ categories = bank.categories
  /\ allWords = bank.allWords
  /\ selectedCategories = bank.selectedCategories
  /\ wordsByCategory =
       UpdateWordsByCategory(bank.allWords, bank.selectedCategories)
  /\ usedWordsByCategory = bank.usedWordsByCategory
  /\ playerNames \in RoleLists
  /\ spyCount \in 1..MaxSpies(Len(playerNames))
  /\ stage = "lobby"
  /\ revealState = "waiting"
  /\ assignments = EmptyObject
  /\ secretWord = ""
  /\ noMoreWords = FALSE
  /\ pageSelected = bank.selectedCategories
  /\ categoryStats =
       CategoryStats(selectedCategories, wordsByCategory, usedWordsByCategory)
  /\ isLoading = FALSE
  /\ current = 0
  /\ ret = NoCall /\ returned = {} /\ seen = <<>>

RolesNext ==
  \/ StartGame
  \/ ShowRole
  \/ NextPlayer
  \/ ResetGame

SpecRoles == RolesInit /\ [][RolesNext]_vars

----------------------------------------------------------------------------
\* The round handlers called in any order, whatever the template offers

MaxCursor == 4

CallStartGame == ~isLoading /\ startGame
CallShowRole == ~isLoading /\ showRole
CallNextPlayer == ~isLoading /\ current < MaxCursor /\ nextPlayer
CallResetGame == ~isLoading /\ resetGame

CallsNext ==
  \/ Mount
  \/ CallStartGame
  \/ CallShowRole
  \/ CallNextPlayer
  \/ CallResetGame

SpecCalls == Init /\ [][CallsNext]_vars

----------------------------------------------------------------------------
\* The lobby's player list and spy count, with up to MaxLobbyPlayers players

MaxLobbyPlayers == 9

LobbyAddPlayer ==
  LobbyShown /\ Len(playerNames) < MaxLobbyPlayers /\ addPlayer

LobbyNext ==
  \/ Mount
  \/ LobbyAddPlayer
  \/ RemovePlayer
  \/ SetSpyCount

SpecLobby == Init /\ [][LobbyNext]_vars

----------------------------------------------------------------------------
\* Rounds in which the player at the device keeps pressing the button shown

SpecRevealFair == SpecRoles /\ WF_vars(ShowRole) /\ WF_vars(NextPlayer)

----------------------------------------------------------------------------
\* Rounds played after every kind of answer to the request for /words.csv

\* '' (split('\n') gives one empty line)
EmptyBody == Csv(<< <<"">> >>)
\* the header line and nothing else
HeaderOnly == Csv(<<Header>>)
\* a missing file answered with an HTML page: lines without a comma
NonCsvBody == Csv(<< <<"<html>">>, <<"Not Found">>, <<"</html>">> >>)
\* records with a category and no word column
NoWordColumn == Csv(<<Header, <<"animals">>, <<"sports">> >>)
\* a record whose word column is empty ('animals,')
EmptyWordColumn == Csv(<<Header, <<"animals", "">> >>)

MalformedSources ==
  {EmptyBody, HeaderOnly, NonCsvBody, NoWordColumn, EmptyWordColumn}
LoadSources == {FetchFails, CsvShared} \cup MalformedSources

LoadMount == isLoading /\ \E src \in LoadSources : onMount(src)

LoadNext ==
  \/ LoadMount
  \/ StartGame
  \/ ShowRole
  \/ NextPlayer
  \/ ResetGame

SpecLoad == Init /\ [][LoadNext]_vars

----------------------------------------------------------------------------
\* Properties

Roles == {"agent", "spy"}
FirstCursors(n) == [i \in 1..n |-> i - 1]
Distinct(names) == \A i, j \in DOMAIN names : names[i] = names[j] => i = j
DrawStep == ret' # NoCall
WordDrawn == ret' \notin {NoCall, Null}

\* C1: at most one role is displayed; a role is displayed only in stage
\* reveal with sub-state revealed, and it is the role of the player at the
\* cursor; in lobby, in done and in sub-state waiting no role is displayed.
C1_OneRoleDisplayed ==
  /\ Cardinality(RoleShown) <= 1
  /\ \A c \in RoleShown :
       /\ stage = "reveal" /\ revealState = "revealed"
       /\ c = current
       /\ c + 1 \in DOMAIN playerNames
       /\ RoleAt(c) \in Roles
  /\ (stage \in {"lobby", "done"} \/ revealState = "waiting") => RoleShown = {}

C1_Witness ==
  stage = "reveal" /\ revealState = "revealed" /\ current = 1
  /\ RoleShown = {1}

\* C2: in a round the players are revealed once each, in list order: in
\* stage done the revealed cursors are exactly 0, 1, ..., n-1, and during
\* the reveal they are the cursors up to the current one.
C2_RevealedOnceInOrder ==
  /\ stage = "done" => seen = FirstCursors(Len(playerNames))
  /\ stage = "reveal" =>
       seen = FirstCursors(IF revealState = "waiting" THEN current
                           ELSE current + 1)

C2_Witness ==
  stage = "done" /\ Len(playerNames) = 4 /\ seen = <<0, 1, 2, 3>>

\* C3: getRandomWord never returns a word that it returned earlier in the
\* session.
C3_NeverReturnsAWordTwice == [][WordDrawn => ret' \notin returned]_vars

\* the category's word list and used count as loaded, whatever the selection
LoadedWords(c) == IF c \in DOMAIN allWords THEN Range(allWords[c]) ELSE {}
HasUnused(c) == Cardinality(UsedOf(c)) < Cardinality(LoadedWords(c))
Exhausted ==
  selectedCategories = <<>>
  \/ \A c \in Range(selectedCategories) : ~HasUnused(c)

\* C4: getRandomWord returns null exactly when the selection is empty or no
\* selected category has an unused word; otherwise the word belongs to a
\* selected category, was not in its used set and is in it afterwards; and
\* every unused word of every selected category can be the result.
C4_DrawContract ==
  /\ [][DrawStep =>
         /\ (ret' = Null) <=> Exhausted
         /\ ret' # Null =>
              \E c \in Range(selectedCategories) :
                /\ ret' \in LoadedWords(c)
                /\ ret' \notin UsedOf(c)
                /\ ret' \in usedWordsByCategory'[c]]_vars
  /\ [](~isLoading =>
         \A c \in Range(selectedCategories) :
           \A w \in LoadedWords(c) \ UsedOf(c) :
             ENABLED (getRandomWord /\ ret' = w
                      /\ w \in usedWordsByCategory'[c]))

C4_Witness ==
  /\ ret \notin {NoCall, Null}
  /\ Len(selectedCategories) = 2
  /\ \E c \in Range(selectedCategories) :
       ret \in UsedOf(c) /\ HasUnused(c)

\* C5: with T words selected of which U are used, a getRandomWord call
\* returns a word while U < T, a word different from every word returned or
\* used before, and uses exactly one more word; once U = T every call
\* returns null, and allWordsUsed() holds from the last successful draw on.
C5_DrawsUntilExhausted ==
  [][DrawStep =>
       /\ getUsedWordCount < getTotalWordCount =>
            /\ ret' # Null
            /\ ret' \notin returned
            /\ \A c \in Range(selectedCategories) : ret' \notin UsedOf(c)
            /\ getUsedWordCount' = getUsedWordCount + 1
       /\ getUsedWordCount >= getTotalWordCount =>
            ret' = Null /\ getUsedWordCount' = getUsedWordCount
       /\ getUsedWordCount' >= getTotalWordCount' => allWordsUsed']_vars

\* C6: with a non-empty selection allWordsUsed() is true exactly when
\* getUsedWordCount() = getTotalWordCount(); with an empty selection it is true.
C6_AllUsedIffCountsEqual ==
  /\ selectedCategories # <<>> =>
       (allWordsUsed <=> getUsedWordCount = getTotalWordCount)
  /\ selectedCategories = <<>> => allWordsUsed

C6_Witness ==
  /\ Len(selectedCategories) = 2
  /\ getTotalWordCount = 3
  /\ getUsedWordCount = 3
  /\ allWordsUsed

\* C7: a startGame whose draw returns null sets the no-more-words flag and
\* leaves stage (lobby), secret word, assignment, cursor, sub-state and every
\* used-word set unchanged.
C7_ExhaustedStartChangesNothing ==
  [][ret' = Null =>
       /\ noMoreWords'
       /\ stage = "lobby" /\ stage' = "lobby"
       /\ secretWord' = secretWord
       /\ assignments' = assignments
       /\ current' = current
       /\ revealState' = revealState
       /\ usedWordsByCategory' = usedWordsByCategory]_vars

C7_Witness ==
  ret = Null /\ noMoreWords /\ stage = "lobby" /\ secretWord = ""
  /\ assignments = EmptyObject

\* C8: a startGame in the lobby whose draw returns a word stores that word
\* as the secret word (the word is newly marked used), computes an assignment
\* for the current player list, sets the cursor to 0 and the sub-state to
\* waiting, and moves the stage to reveal.
C8_SuccessfulStart ==
  [][WordDrawn =>
       /\ stage = "lobby" /\ stage' = "reveal"
       /\ secretWord' = ret'
       /\ \E c \in DOMAIN usedWordsByCategory :
            /\ ret' \notin usedWordsByCategory[c]
            /\ usedWordsByCategory' =
                 [usedWordsByCategory EXCEPT ![c] = @ \cup {ret'}]
       /\ DOMAIN assignments' = Range(playerNames')
       /\ \A p \in DOMAIN assignments' : assignments'[p] \in Roles
       /\ current' = 0
       /\ revealState' = "waiting"]_vars

C8_Witness ==
  /\ stage = "reveal" /\ current = 0 /\ revealState = "waiting"
  /\ secretWord = ret /\ ret \notin {NoCall, Null}
  /\ Cardinality(returned) = 2
  /\ DOMAIN assignments = Range(playerNames)

\* C9: after a successful startGame with n players of distinct names and
\* spy count s, 1 <= s <= maxSpies(n), the assignment has n entries, each
\* agent or spy, of which exactly s are spy and n - s agent.
C9_ExactSpyCount ==
  (stage \in {"reveal", "done"} /\ Distinct(playerNames)
   /\ spyCount \in 1..MaxSpies(Len(playerNames))) =>
    /\ Cardinality(DOMAIN assignments) = Len(playerNames)
    /\ \A p \in DOMAIN assignments : assignments[p] \in Roles
    /\ Cardinality({p \in DOMAIN assignments : assignments[p] = "spy"})
         = spyCount
    /\ Cardinality({p \in DOMAIN assignments : assignments[p] = "agent"})
         = Len(playerNames) - spyCount

C9_Witness ==
  /\ stage = "reveal" /\ Distinct(playerNames)
  /\ Len(playerNames) = 6 /\ spyCount = 2
  /\ Cardinality({p \in DOMAIN assignments : assignments[p] = "spy"}) = 2

\* C10: with same-named players the assignment still has one entry per
\* player position and exactly spyCount positions are spies.
C10_KeyedByPosition ==
  stage \in {"reveal", "done"} =>
    /\ Cardinality(DOMAIN assignments) = Len(playerNames)
    /\ Cardinality({i \in DOMAIN playerNames : RoleAt(i - 1) = "spy"})
         = spyCount

\* C11: nextPlayer in stage reveal with sub-state revealed increments the
\* cursor by exactly 1; if the cursor then equals the player count the stage
\* becomes done and the cursor stays at the player count; otherwise the stage
\* stays reveal and the sub-state becomes waiting.
C11_NextPlayerAdvances ==
  /\ [][(stage = "reveal" /\ revealState = "revealed") =>
          /\ current' = current + 1
          /\ playerNames' = playerNames
          /\ IF current' = Len(playerNames)
             THEN stage' = "done"
             ELSE stage' = "reveal" /\ revealState' = "waiting"]_vars
  /\ [](stage = "done" => current = Len(playerNames))

C11_Witness ==
  stage = "done" /\ current = 3 /\ Len(playerNames) = 3 /\ seen = <<0, 1, 2>>

\* C12: nextPlayer invoked while the sub-state is waiting, or while the stage
\* is not reveal, is a no-op: cursor, sub-state, stage, secret word and
\* assignment are unchanged.
C12_NextPlayerOutOfTurnIsNoOp ==
  [][(nextPlayer /\ ~(stage = "reveal" /\ revealState = "revealed")) =>
       UNCHANGED <<current, revealState, stage, secretWord, assignments>>]_vars

\* C13: showRole in stage reveal with sub-state waiting changes only the
\* sub-state, to revealed; showRole in stage lobby or done changes nothing,
\* the sub-state included.
C13_ShowRoleOnlyInReveal ==
  [][showRole =>
       /\ (stage = "reveal" /\ revealState = "waiting") =>
            revealState' = "revealed"
            /\ UNCHANGED <<bankVars, playerNames, spyCount, stage, assignments,
                           secretWord, noMoreWords, pageSelected,
                           categoryStats, isLoading, current>>
       /\ stage \in {"lobby", "done"} =>
            UNCHANGED <<bankVars, pageVars>>]_vars

\* C14: after any sequence of startGame, showRole, nextPlayer and resetGame
\* calls the cursor is at least 0 and at most the player count.
C14_CursorInRange == 0 <= current /\ current <= Len(playerNames)

\* C15: resetGame sets the stage to lobby, clears the secret word and the
\* assignment, sets the cursor to 0 and the sub-state to waiting, and leaves
\* the player list, the spy count, the selected categories and every
\* category's used-word set unchanged.
C15_ResetKeepsConfiguration ==
  [][stage = "done" =>
       /\ stage' = "lobby"
       /\ secretWord' = ""
       /\ assignments' = EmptyObject
       /\ current' = 0
       /\ revealState' = "waiting"
       /\ UNCHANGED <<playerNames, spyCount, selectedCategories, pageSelected,
                      usedWordsByCategory>>]_vars

C15_Witness ==
  /\ stage = "lobby" /\ secretWord = "" /\ assignments = EmptyObject
  /\ current = 0 /\ revealState = "waiting"
  /\ returned # {}
  /\ \E c \in DOMAIN usedWordsByCategory : usedWordsByCategory[c] # {}

\* sums over a set of categories, from the loaded lists and the used sets
LoadedCount(c) == IF c \in DOMAIN allWords THEN Len(allWords[c]) ELSE 0
RECURSIVE WordSum(_)
WordSum(S) ==
  IF S = {} THEN 0
  ELSE LET c == CHOOSE x \in S : TRUE IN LoadedCount(c) + WordSum(S \ {c})
RECURSIVE UsedSum(_)
UsedSum(S) ==
  IF S = {} THEN 0
  ELSE LET c == CHOOSE x \in S : TRUE
       IN Cardinality(UsedOf(c)) + UsedSum(S \ {c})
KnownSelected == Range(selectedCategories) \ {UnknownCategory}

\* C16: setSelectedCategories replaces the selection and leaves every used
\* set unchanged, so a reselected category shows its earlier used count; a
\* name that is no loaded category is never drawn from, adds 0 to the total
\* and used counts and does not keep allWordsUsed() from being true.
C16_SelectionKeepsUsage ==
  /\ [][(~isLoading /\ selectedCategories' # selectedCategories) =>
          usedWordsByCategory' = usedWordsByCategory]_vars
  /\ [](LET known == KnownSelected IN
         /\ \A c \in known :
              getCategoryStats[c].used = Cardinality(UsedOf(c))
         /\ \A d \in Draws : d.category # UnknownCategory
         /\ getTotalWordCount = WordSum(known)
         /\ getUsedWordCount = UsedSum(known)
         /\ (\A c \in known : ~HasUnused(c)) => allWordsUsed)

C16_Witness ==
  /\ Len(selectedCategories) = 2
  /\ selectedCategories[1] = UnknownCategory
  /\ getTotalWordCount = 2 /\ getUsedWordCount = 2
  /\ allWordsUsed
  /\ \E c \in DOMAIN usedWordsByCategory \ Range(selectedCategories) :
       usedWordsByCategory[c] # {}

\* C17: getTotalWordCount() is the sum of the word counts and
\* getUsedWordCount() the sum of the used counts over the selected categories
\* only; getCategoryStats() has one {used, total} entry per selected category
\* and none for an unselected one.
C17_CountsOverSelection ==
  /\ getTotalWordCount = WordSum(Range(selectedCategories))
  /\ getUsedWordCount = UsedSum(Range(selectedCategories))
  /\ DOMAIN getCategoryStats = Range(selectedCategories)
  /\ \A c \in Range(selectedCategories) :
       getCategoryStats[c] =
         [used |-> Cardinality(UsedOf(c)), total |-> LoadedCount(c)]

C17_Witness ==
  /\ Len(categories) = 2 /\ Len(selectedCategories) = 1
  /\ selectedCategories[1] \in DOMAIN allWords
  /\ getTotalWordCount = 2 /\ getUsedWordCount = 1
  /\ WordSum(DOMAIN allWords) = 3 /\ UsedSum(DOMAIN allWords) = 2

\* C18: maxSpies(n) = max(1, floor(n/3)), and after any sequence of
\* addPlayer, removePlayer and spy-count changes the spy count is at least 1
\* and at most maxSpies of the player count.
C18_SpyCountInRange ==
  LET n == Len(playerNames) IN
  /\ n < 3 => MaxSpies(n) = 1
  /\ n >= 3 => 3 * MaxSpies(n) <= n /\ n < 3 * (MaxSpies(n) + 1)
  /\ spyCount >= 1
  /\ spyCount = 1 \/ 3 * spyCount <= n

C18_Witness ==
  Len(playerNames) = 9 /\ spyCount = 3 /\ playerNames[1] = ""

\* C19: within a session the used sets only grow: a getRandomWord that
\* returns a word adds exactly that one word to exactly one category's used
\* set, a getRandomWord that returns null changes no used set, and no other
\* operation changes any used set.
C19_UsedSetsOnlyGrow ==
  [][~isLoading =>
       IF WordDrawn
       THEN \E c \in DOMAIN usedWordsByCategory :
              /\ ret' \notin usedWordsByCategory[c]
              /\ usedWordsByCategory' =
                   [usedWordsByCategory EXCEPT ![c] = @ \cup {ret'}]
       ELSE UNCHANGED usedWordsByCategory]_vars

C19_Witness ==
  /\ ret = Null /\ noMoreWords
  /\ Len(selectedCategories) = 2
  /\ UsedSum(DOMAIN usedWordsByCategory) = 3

BlankNames == {"", " "}

\* C20: startGame runs only from a lobby state with at least 3 players, no
\* player name empty after trimming and at least one category selected; so
\* in stage reveal and done there are at least 3 players, all with non-empty
\* names.
C20_StartPreconditions ==
  /\ [][DrawStep =>
          /\ stage = "lobby"
          /\ Len(playerNames) >= 3
          /\ \A i \in DOMAIN playerNames : playerNames[i] \notin BlankNames
          /\ Len(pageSelected) >= 1 /\ Len(selectedCategories) >= 1]_vars
  /\ [](stage \in {"reveal", "done"} =>
          /\ Len(playerNames) >= 3
          /\ \A i \in DOMAIN playerNames : playerNames[i] \notin BlankNames)

C20_Witness ==
  /\ stage = "reveal" /\ Len(playerNames) = 4
  /\ playerNames[4] = "Bob"
  /\ Len(pageSelected) = 1

\* the Start Game button is rendered and not disabled
StartEnabled == LobbyShown /\ ~StartDisabled

\* C21 as stated: the start control is never enabled in a state where
\* allWordsUsed() is true.
C21_NeverEnabledWhenExhausted == allWordsUsed => ~StartEnabled

\* C21 as the code has it: the start control is never enabled while the
\* no-more-words flag is set; the flag is set only by a startGame whose draw
\* returns null, and such a startGame runs from a state where allWordsUsed()
\* is true and the control is enabled, and leaves the stage in lobby.
C21_NeverEnabledWhenFlagged ==
  /\ [](noMoreWords => ~StartEnabled)
  /\ [][(noMoreWords' # noMoreWords) =>
          /\ ~noMoreWords /\ noMoreWords'
          /\ ret' = Null
          /\ allWordsUsed /\ StartEnabled
          /\ stage' = "lobby"]_vars
  /\ [][(StartEnabled /\ allWordsUsed /\ DrawStep) =>
          ret' = Null /\ noMoreWords']_vars

C21_Witness ==
  /\ LobbyShown /\ noMoreWords /\ ret = Null
  /\ Len(playerNames) >= 3 /\ Len(pageSelected) = 1
  /\ allWordsUsed /\ ~StartEnabled

\* the template calls a word bank query while rendering: the word counts of
\* the lobby, and allWordsUsed() with the counts of the done screen
BankQueried ==
  \/ LobbyShown /\ ~noMoreWords
  \/ stage \notin {"lobby", "reveal"}

\* every control of the page that calls a handler
PageControls ==
  \/ ToggleCategory \/ SelectAll \/ DeselectAll
  \/ AddPlayer \/ RemovePlayer \/ UpdatePlayerName \/ SetSpyCount
  \/ StartGame \/ ShowRole \/ NextPlayer \/ ResetGame

\* C22: while initializeWords is pending no word bank operation is invoked:
\* the page is in the lobby, renders no bank query and offers no control;
\* the only step is the completion of the load, which draws no word and
\* leaves the round and the players alone.
C22_NothingBeforeInitialized ==
  /\ [](isLoading =>
          /\ stage = "lobby"
          /\ ~BankQueried
          /\ ~ENABLED PageControls
          /\ ENABLED Mount)
  /\ [][isLoading =>
          /\ ~isLoading'
          /\ ret' = NoCall
          /\ UNCHANGED <<playerNames, spyCount, stage, revealState,
                         assignments, secretWord, noMoreWords, current>>]_vars

C22_Witness ==
  /\ ~isLoading /\ BankQueried
  /\ ret = NoCall /\ returned = {}
  /\ Len(selectedCategories) = 2
  /\ getUsedWordCount = 0 /\ getTotalWordCount = 3

\* the lobby as the fallback load leaves it, before any draw
FreshFallbackLobby ==
  /\ LobbyShown /\ categories = <<"default">> /\ returned = {}
  /\ ~StartDisabled

\* C23: when the fetch or the read of the word source throws, initializeWords
\* still completes, and afterwards the word bank holds exactly one built-in
\* category, which is selected, has at least one word and an empty used set;
\* a round can then be started, with a built-in word as the secret word.
C23_FetchFailureFallsBack ==
  /\ [](isLoading => ENABLED onMount(FetchFails))
  /\ [][(isLoading /\ onMount(FetchFails)) =>
          /\ ~isLoading'
          /\ Len(categories') = 1
          /\ DOMAIN allWords' = Range(categories')
          /\ selectedCategories' = categories'
          /\ pageSelected' = categories'
          /\ \A c \in Range(categories') :
               /\ Len(allWords'[c]) >= 1
               /\ wordsByCategory'[c] = allWords'[c]
               /\ usedWordsByCategory'[c] = {}
          /\ ~allWordsUsed'
          /\ ~StartDisabled']_vars
  /\ [](FreshFallbackLobby =>
          ENABLED (StartGame /\ stage' = "reveal"
                   /\ secretWord' \in Range(DefaultWords)))

C23_Witness ==
  /\ categories = <<"default">> /\ selectedCategories = <<"default">>
  /\ stage = "reveal" /\ secretWord \in Range(DefaultWords)
  /\ Cardinality(UsedOf("default")) = 1

\* the state initializeWords leaves: loaded, and no word drawn yet
FreshlyLoaded == ~isLoading /\ returned = {} /\ ret = NoCall
RealWord(w) == w \notin {Null, Undefined, ""}

\* C24: whatever the load of the word source gives, the state after
\* initializeWords is playable: at least one category is selected and
\* getRandomWord returns a defined, non-empty word; a malformed source leads
\* to the built-in single-category list.
C24_EveryLoadIsPlayable ==
  /\ [][isLoading => Len(selectedCategories') >= 1]_vars
  /\ [](FreshlyLoaded => \A d \in Draws : RealWord(d.word))
  /\ [][\A src \in MalformedSources :
          (isLoading /\ onMount(src)) => categories' = <<"default">>]_vars

\* C25: between a successful startGame and the next resetGame the secret
\* word, the assignment and the player list do not change: showRole changes
\* only the reveal sub-state, nextPlayer only the sub-state, the cursor and
\* the stage, and in stage done the round's word and assignment are still
\* those of its start.
C25_RoundFrame ==
  /\ [][stage = "reveal" =>
          /\ UNCHANGED <<secretWord, assignments, playerNames>>
          /\ UNCHANGED <<bankVars, spyCount, noMoreWords, pageSelected,
                         categoryStats, isLoading>>
          /\ revealState = "waiting" =>
               showRole /\ UNCHANGED <<current, stage>>
          /\ revealState # "waiting" => nextPlayer]_vars
  /\ [][(stage = "lobby" /\ stage' = "reveal") =>
          secretWord' = ret' /\ DOMAIN assignments' = Range(playerNames)]_vars
  /\ [](stage \in {"reveal", "done"} =>
          /\ secretWord = ret \/ ret = NoCall
          /\ secretWord \in returned
          /\ DOMAIN assignments = Range(playerNames))

C25_Witness ==
  /\ stage = "done" /\ ret = NoCall
  /\ secretWord \in returned
  /\ DOMAIN assignments = Range(playerNames)
  /\ Len(seen) = Len(playerNames)

\* the number of reveal actions taken since startGame, read off the state:
\* two per player passed, one more when the current player's role is shown
RevealActions ==
  2 * current + (IF stage = "reveal" /\ revealState # "waiting" THEN 1 ELSE 0)

\* C26: every started round terminates: when the reveal actions offered keep
\* being taken, stage reveal leads to stage done; startGame leaves the count
\* of reveal actions at 0, each step of stage reveal is one reveal action, and
\* stage done is entered exactly when the count is twice the player count.
C26_RoundTerminates ==
  /\ (stage = "reveal") ~> (stage = "done")
  /\ [](stage = "reveal" => ENABLED (ShowRole \/ NextPlayer))
  /\ [][(stage = "lobby" /\ stage' = "reveal") => RevealActions' = 0]_vars
  /\ [][stage = "reveal" =>
          /\ ShowRole \/ NextPlayer
          /\ RevealActions' = RevealActions + 1
          /\ stage' = "done" <=> RevealActions' = 2 * Len(playerNames)]_vars
  /\ [](stage = "done" => RevealActions = 2 * Len(playerNames))

C26_Witness ==
  /\ stage = "done" /\ Len(playerNames) = 5
  /\ RevealActions = 10 /\ seen = <<0, 1, 2, 3, 4>>

\* the secret words a screen shows
WordsOn(screen) == IF screen[1] = "word" THEN {screen[2]} ELSE {}
OtherWords == Range(DefaultWords) \cup BankWords \cup {"", "other"}

\* C27: the secret word is displayed only in stage reveal with sub-state
\* revealed and an agent at the cursor, and then it is the round's word; with
\* a spy at the cursor the page displays the same whatever the secret word is.
C27_WordShownOnlyToAgents ==
  /\ WordsOn(Displayed(secretWord)) # {} =>
       /\ stage = "reveal" /\ revealState = "revealed"
       /\ RoleAt(current) = "agent"
       /\ WordsOn(Displayed(secretWord)) = {secretWord}
       /\ secretWord \in returned
  /\ (stage = "reveal" /\ revealState = "revealed"
      /\ RoleAt(current) = "agent") =>
       WordsOn(Displayed(secretWord)) = {secretWord}
  /\ (stage = "reveal" /\ RoleAt(current) = "spy") =>
       \A w \in OtherWords : Displayed(w) = Displayed(secretWord)

C27_Witness ==
  /\ stage = "reveal" /\ revealState = "revealed" /\ seen = <<0, 1>>
  /\ RoleAt(0) = "agent" /\ RoleAt(1) = "spy"
  /\ secretWord \in returned
  /\ Displayed(secretWord) = <<"spy">>

\* C28: after a startGame that failed with exhaustion, once the selection
\* has a category with an unused word (and the players are as a start needs
\* them) the start control is enabled and a startGame reaches stage reveal.
C28_StartableAfterReselection ==
  (/\ LobbyShown /\ noMoreWords
   /\ \E c \in Range(selectedCategories) : HasUnused(c)
   /\ Len(playerNames) >= 3
   /\ \A i \in DOMAIN playerNames : playerNames[i] \notin BlankNames) =>
    /\ StartEnabled
    /\ ENABLED (StartGame /\ stage' = "reveal")

\* C29: startGame called with fewer than 3 players, with a player name that
\* is empty after trimming, with no category selected or in a stage other
\* than lobby starts no round: stage, secret word, assignment, cursor and
\* used-word sets are unchanged.
C29_StartGameChecksPreconditions ==
  [][(/\ startGame
      /\ \/ Len(playerNames) < 3
         \/ \E i \in DOMAIN playerNames : playerNames[i] \in BlankNames
         \/ Len(selectedCategories) = 0
         \/ stage # "lobby") =>
       UNCHANGED <<stage, secretWord, assignments, current,
                   usedWordsByCategory>>]_vars

\* C30: from a lobby with n >= 3 players of distinct names and spy count 1
\* where a word can be drawn, startGame has for every player p an outcome in
\* which p is the one spy, so that two startGame calls on the same inputs can
\* give different assignments.
C30_SamplingNotDegenerate ==
  (/\ StartEnabled /\ ~allWordsUsed
   /\ Len(playerNames) >= 3 /\ Distinct(playerNames)
   /\ spyCount = 1) =>
    /\ \A p \in Range(playerNames) :
         ENABLED (/\ StartGame
                  /\ stage' = "reveal"
                  /\ assignments' =
                       [q \in Range(playerNames) |->
                          IF q = p THEN "spy" ELSE "agent"])
    /\ \E p, q \in Range(playerNames) :
         /\ ENABLED (StartGame /\ assignments'[p] = "spy")
         /\ ENABLED (StartGame /\ assignments'[p] = "agent"
                     /\ assignments'[q] = "spy")

C30_Witness ==
  /\ stage = "reveal" /\ current = 0 /\ Distinct(playerNames)
  /\ Len(playerNames) = 5 /\ spyCount = 1
  /\ assignments[playerNames[5]] = "spy"
  /\ \A i \in 1..4 : assignments[playerNames[i]] = "agent"

Stages == {"lobby", "reveal", "done"}

\* C31: the stage starts as lobby and changes only lobby -> reveal (a
\* startGame that drew a word), reveal -> done (nextPlayer on the last
\* player) and done -> lobby (resetGame); it never moves lobby -> done,
\* reveal -> lobby or done -> reveal.
C31_StageTransitions ==
  /\ stage = "lobby"
  /\ [](stage \in Stages)
  /\ [][stage' # stage =>
          \/ /\ stage = "lobby" /\ stage' = "reveal"
             /\ startGame /\ WordDrawn
          \/ /\ stage = "reveal" /\ stage' = "done"
             /\ nextPlayer /\ current = Len(playerNames) - 1
          \/ /\ stage = "done" /\ stage' = "lobby"
             /\ resetGame]_vars
  /\ [][stage = "done" => stage' = "lobby"]_vars

C31_Witness ==
  /\ stage = "reveal" /\ current = 2 /\ revealState = "waiting"
  /\ Cardinality(returned) = 2 /\ ret = NoCall

\* the number of used words over all tracked categories
UsedTotal == UsedSum(DOMAIN usedWordsByCategory)
RoundStarts == stage = "lobby" /\ stage' = "reveal"

\* C32: the number of used words over all categories, selected or not, is
\* the number of rounds started in the session: it is 0 at first, a step
\* that starts a round (lobby to reveal) raises it by exactly one, and no
\* other step changes it.
C32_UsedWordsCountRounds ==
  /\ UsedTotal = 0
  /\ [][UsedTotal' = UsedTotal + (IF RoundStarts THEN 1 ELSE 0)]_vars
  /\ [][RoundStarts <=> WordDrawn]_vars
  /\ [](stage \in {"reveal", "done"} => UsedTotal >= 1)
  /\ [](Cardinality(returned) <= UsedTotal)

C32_Witness ==
  /\ stage = "done" /\ UsedTotal = 3
  /\ Cardinality(returned) = 2
  /\ Len(selectedCategories) = 1

\* C33: in stage reveal and in stage done the secret word is a non-empty
\* word of a currently selected category and is in that category's used set.
C33_SecretWordIsUsedWord ==
  stage \in {"reveal", "done"} =>
    /\ RealWord(secretWord)
    /\ \E c \in Range(selectedCategories) :
         /\ secretWord \in Range(WordsOf(c))
         /\ secretWord \in UsedOf(c)

\* no round: no secret word, no assignment, cursor 0, sub-state waiting
RoundCleared ==
  /\ secretWord = ""
  /\ assignments = EmptyObject
  /\ current = 0
  /\ revealState = "waiting"

\* C34: whenever the stage is lobby the secret word is empty, the assignment
\* is empty, the cursor is 0 and the sub-state is waiting: initially, after
\* a startGame that failed with exhaustion and after resetGame.
C34_LobbyHasNoRound ==
  /\ stage = "lobby" /\ RoundCleared
  /\ [](stage = "lobby" => RoundCleared)
  /\ [][ret' = Null => stage' = "lobby" /\ RoundCleared']_vars
  /\ [][stage = "done" => stage' = "lobby" /\ RoundCleared']_vars

C34_Witness ==
  /\ stage = "lobby" /\ RoundCleared
  /\ ret = Null /\ UsedTotal = 1 /\ Len(selectedCategories) = 1

\* C35: whenever the stage is reveal the cursor is at least 0 and below the
\* player count, the player list is the one the round was started with (the
\* assignment's players, unchanged during the round), and the assignment has
\* the role agent or spy for the player at the cursor, which is the role the
\* card displays.
C35_CursorOnAssignedPlayer ==
  /\ [](stage = "reveal" =>
          /\ 0 <= current /\ current < Len(playerNames)
          /\ DOMAIN assignments = Range(playerNames)
          /\ playerNames[current + 1] \in DOMAIN assignments
          /\ assignments[playerNames[current + 1]] \in Roles
          /\ RoleAt(current) = assignments[playerNames[current + 1]]
          /\ revealState # "waiting" =>
               Displayed(secretWord) \in {<<"word", secretWord>>, <<"spy">>}
               /\ (Displayed(secretWord) = <<"spy">>
                     <=> RoleAt(current) = "spy"))
  /\ [][stage = "reveal" => UNCHANGED <<playerNames, assignments>>]_vars

C35_Witness ==
  /\ stage = "reveal" /\ revealState = "revealed"
  /\ Len(playerNames) = 4 /\ current = 3
  /\ RoleAt(current) = "agent"
  /\ Displayed(secretWord) = <<"word", secretWord>>

\* the per-category statistics are rendered: next to the categories of the
\* lobby, and on the done screen while allWordsUsed() is false
StatsShown == LobbyShown \/ (stage = "done" /\ ~allWordsUsed)

\* the used counts of the cached statistics, summed over a set of categories
RECURSIVE CachedUsedSum(_)
CachedUsedSum(S) ==
  IF S = {} THEN 0
  ELSE LET c == CHOOSE x \in S : TRUE
       IN categoryStats[c].used + CachedUsedSum(S \ {c})

\* C36: whenever the per-category statistics are shown, the cached
\* statistics equal getCategoryStats() of the word bank; on the done screen
\* their used counts sum to getUsedWordCount().
C36_CachedStatsCurrent ==
  StatsShown =>
    /\ categoryStats = getCategoryStats
    /\ stage = "done" =>
         CachedUsedSum(DOMAIN categoryStats) = getUsedWordCount


\* C37: once the word bank is initialized, getRandomWord returns null
\* exactly when allWordsUsed() is true: every result it can give in a state
\* is null if allWordsUsed() holds there and is not null otherwise, and a
\* call made returns accordingly.
C37_NullIffAllWordsUsed ==
  /\ [](~isLoading =>
          /\ \A d \in Draws : (d.word = Null) <=> allWordsUsed
          /\ ENABLED getRandomWord
          /\ allWordsUsed => ENABLED (getRandomWord /\ ret' = Null)
          /\ ~allWordsUsed => ~ENABLED (getRandomWord /\ ret' = Null))
  /\ [][DrawStep => ((ret' = Null) <=> allWordsUsed)]_vars

C37_Witness ==
  /\ ~isLoading /\ ~allWordsUsed /\ ret \notin {NoCall, Null}
  /\ Len(selectedCategories) = 2
  /\ \E c \in Range(selectedCategories) :
       c \in DOMAIN allWords /\ ~HasUnused(c) /\ ret \in UsedOf(c)

====
